---- MODULE Spec2Model ----
(***************************************************************************)
(* A model of src/blockchain.py: the Blockchain class (pending buffer,     *)
(* chain, hashing, proof of work, chain validation) and the mine_block     *)
(* orchestration function.                                                 *)
(*                                                                         *)
(* Strings and byte strings are sequences of character codes.  The codes   *)
(* 0..15 are the characters '0'..'9','a'..'f', so that a decimal rendering *)
(* and a hex digest share their digits as they do in Python; the codes     *)
(* from 16 up are the other characters of the JSON text.  SHA-256 is       *)
(* modelled by a deterministic fold of the bytes into a 4-hex-digit digest *)
(* (the real digest has 64): equal bytes give equal digests, different     *)
(* bytes give different digests except for collisions.                     *)
(***************************************************************************)
EXTENDS Integers, Sequences, FiniteSets, TLC

VARIABLES
    chain,                  \* Blockchain.chain
    current_transactions,   \* Blockchain.current_transactions (the pending buffer)
    out,                    \* the last operation, with what it returned or printed
    log,                    \* history: the user's new_transaction calls, each with the index it returned
    foreign,                \* a chain received from elsewhere, handed to valid_chain
    seed,                   \* a (last_proof, last_hash) pair handed to the proof-of-work scan
    ledger,                 \* a Blockchain object shared by threads: chain, current_transactions and the list objects they refer to
    threads                 \* the threads calling into ledger: each one's position and local variables

vars == <<chain, current_transactions, out, log, foreign, seed, ledger, threads>>

(* ------------------------------ bounds -------------------------------- *)

\* The longest chain the ledger grows to.
MaxBlocks == 3
\* The number of user transactions submitted in one run.
MaxTx == 2
\* proof_of_work's scan is followed up to this candidate; a scan that finds
\* nothing up to it has not returned.
MaxProof == 1500
\* The longest chain received from elsewhere.
MaxForeign == 3
\* The proof-of-work scan is tried on the last proofs 0..MaxSeed (and 100) and
\* on the digests of the texts "0".."MaxSeed".
MaxSeed == 9

(* ------------------------------ inputs -------------------------------- *)

\* Python's None (the current_hash placeholder, and the default previous_hash).
None == <<>>

\* Values time() returns.
Times == {3, 17}

\* Values str(uuid4()).replace('-', '') returns.
Uuids == {<<12, 13>>, <<14, 15>>}

\* The transactions users submit (senders and recipients "0", "a", "b"): one
\* has the shape of a reward.
UserTransactions ==
    { [sender |-> <<0>>,  recipient |-> <<10>>, amount |-> 1],
      [sender |-> <<10>>, recipient |-> <<11>>, amount |-> 25] }

(* --------------------------- text and digest -------------------------- *)

\* str(n) for an integer n >= 0: its decimal digits.
RECURSIVE FmtInt(_)
FmtInt(n) == IF n < 10 THEN <<n>> ELSE FmtInt(n \div 10) \o <<n % 10>>

\* The characters of the JSON text other than digits and hex letters.
Tok ==
    [ quote |-> 16, comma |-> 17, lbrace |-> 18, rbrace |-> 19, lbrack |-> 20,
      rbrack |-> 21, dot |-> 22, null |-> 23,
      k_current_hash |-> 24, k_index |-> 25, k_previous_hash |-> 26,
      k_proof |-> 27, k_timestamp |-> 28, k_transactions |-> 29,
      k_amount |-> 30, k_recipient |-> 31, k_sender |-> 32,
      N |-> 33, o |-> 34, n |-> 35 ]

\* f'{x}' of a string or None: the string itself, or the text "None".
FmtStr(s) == IF s = None THEN <<Tok.N, Tok.o, Tok.n, 14>> ELSE s

\* json.dumps of a string or None.
JsonStr(s) == IF s = None THEN <<Tok.null>> ELSE <<Tok.quote>> \o s \o <<Tok.quote>>

\* json.dumps of a transaction, keys sorted: amount, recipient, sender.
JsonTx(t) ==
    <<Tok.lbrace, Tok.k_amount>> \o FmtInt(t.amount)
    \o <<Tok.comma, Tok.k_recipient>> \o JsonStr(t.recipient)
    \o <<Tok.comma, Tok.k_sender>> \o JsonStr(t.sender) \o <<Tok.rbrace>>

\* json.dumps of a list of transactions.
RECURSIVE JsonTxList(_, _)
JsonTxList(ts, i) ==
    IF i > Len(ts) THEN <<>>
    ELSE (IF i > 1 THEN <<Tok.comma>> ELSE <<>>) \o JsonTx(ts[i]) \o JsonTxList(ts, i + 1)

\* json.dumps(block, sort_keys=True).encode(): keys sorted: current_hash,
\* index, previous_hash, proof, timestamp, transactions.
JsonBlock(b) ==
    <<Tok.lbrace, Tok.k_current_hash>> \o JsonStr(b.current_hash)
    \o <<Tok.comma, Tok.k_index>> \o FmtInt(b.index)
    \o <<Tok.comma, Tok.k_previous_hash>> \o JsonStr(b.previous_hash)
    \o <<Tok.comma, Tok.k_proof>> \o FmtInt(b.proof)
    \o <<Tok.comma, Tok.k_timestamp>> \o FmtInt(b.timestamp) \o <<Tok.dot, 0>>
    \o <<Tok.comma, Tok.k_transactions, Tok.lbrack>>
    \o JsonTxList(b.transactions, 1) \o <<Tok.rbrack, Tok.rbrace>>

\* hashlib.sha256: the bytes bytes[lo..hi] folded in order into the running
\* value h, one byte at a time (the range is split in halves, and the left
\* half's value is looked at before the right half starts, only to keep the
\* evaluation shallow; the bytes are still consumed left to right and the
\* value is never negative).
RECURSIVE Sha256Fold(_, _, _, _)
Sha256Fold(bytes, lo, hi, h) ==
    IF lo > hi THEN h
    ELSE IF lo = hi THEN (h * 251 + bytes[lo] + 1) % 65521
    ELSE LET mid == (lo + hi) \div 2
             left == Sha256Fold(bytes, lo, mid, h)
         IN  IF left < 0 THEN left ELSE Sha256Fold(bytes, mid + 1, hi, left)

\* hashlib.sha256(bytes).hexdigest(): the digest, a number below 65521,
\* rendered as 4 lowercase hex digits.
Sha256Hex(bytes) ==
    LET d == Sha256Fold(bytes, 1, Len(bytes), 7)
    IN  <<d \div 4096, (d \div 256) % 16, (d \div 16) % 16, d % 16>>

\* Blockchain.hash
hash(block) == Sha256Hex(JsonBlock(block))

\* Blockchain.valid_proof
valid_proof(last_proof, proof, last_hash) ==
    LET guess == FmtInt(last_proof) \o FmtInt(proof) \o FmtStr(last_hash)
        guess_hash == Sha256Hex(guess)
    IN  SubSeq(guess_hash, 1, 2) = <<0, 0>>

\* The scan of proof_of_work over the candidates lo..hi in increasing order:
\* the first one valid_proof accepts, or -1 when it accepts none of them (the
\* range is split in halves only to keep the evaluation shallow; the lower
\* half is always scanned first).
RECURSIVE Scan(_, _, _, _)
Scan(last_proof, last_hash, lo, hi) ==
    IF lo > hi THEN -1
    ELSE IF lo = hi THEN (IF valid_proof(last_proof, lo, last_hash) THEN lo ELSE -1)
    ELSE LET mid == (lo + hi) \div 2
             low == Scan(last_proof, last_hash, lo, mid)
         IN  IF low # -1 THEN low ELSE Scan(last_proof, last_hash, mid + 1, hi)

\* A faulty loop: the candidate is incremented once more after the test passes.
SearchOneTooFar(last_proof, last_hash) ==
    LET found == Scan(last_proof, last_hash, 0, MaxProof)
    IN  IF found = -1 THEN -1 ELSE found + 1

\* The loop of proof_of_work: proof = 0; while not valid_proof: proof += 1.
\* -1 when the loop has not returned by candidate MaxProof.  (The length test
\* is always true: it only has last_hash computed before the scan starts.)
Search(last_proof, last_hash) ==
    IF Len(FmtStr(last_hash)) >= 0 THEN Scan(last_proof, last_hash, 0, MaxProof) ELSE -1

\* A faulty proof_of_work: the scan is seeded with the stored current_hash of
\* the last block instead of the hash of the last block.
proof_of_work_stored(last) == Search(last.proof, last.current_hash)

\* Blockchain.proof_of_work
proof_of_work(last) == Search(last.proof, hash(last))

(* ------------------------------ Blockchain ---------------------------- *)

\* Blockchain.last_block
last_block(ch) == ch[Len(ch)]

\* A faulty new_block: previous_hash copies the stored current_hash of the last
\* block instead of hashing the last block.
new_block_stored_hash(ch, pending, proof, previous_hash, now) ==
    LET block == [ index         |-> Len(ch) + 1,
                   timestamp     |-> now,
                   transactions  |-> pending,
                   proof         |-> proof,
                   previous_hash |-> IF previous_hash # None THEN previous_hash
                                     ELSE last_block(ch).current_hash,
                   current_hash  |-> None ]
    IN  [block EXCEPT !.current_hash = hash(block)]

\* A faulty new_block: the index is the 0-based position.
new_block_index0(ch, pending, proof, previous_hash, now) ==
    LET block == [ index         |-> Len(ch),
                   timestamp     |-> now,
                   transactions  |-> pending,
                   proof         |-> proof,
                   previous_hash |-> IF previous_hash # None THEN previous_hash
                                     ELSE hash(last_block(ch)),
                   current_hash  |-> None ]
    IN  [block EXCEPT !.current_hash = hash(block)]

\* A faulty new_block: the hash is taken a second time, over the block that
\* already stores its first hash.
new_block_hashed_twice(ch, pending, proof, previous_hash, now) ==
    LET block == [ index         |-> Len(ch) + 1,
                   timestamp     |-> now,
                   transactions  |-> pending,
                   proof         |-> proof,
                   previous_hash |-> IF previous_hash # None THEN previous_hash
                                     ELSE hash(last_block(ch)),
                   current_hash  |-> None ]
    IN  [block EXCEPT !.current_hash = hash([block EXCEPT !.current_hash = hash(block)])]

\* Blockchain.new_block: the block it builds from the chain ch and the pending
\* transactions, with time() returning now.  `previous_hash or ...` takes the
\* hash of the last block when previous_hash is None.
new_block(ch, pending, proof, previous_hash, now) ==
    LET block == [ index         |-> Len(ch) + 1,
                   timestamp     |-> now,
                   transactions  |-> pending,
                   proof         |-> proof,
                   previous_hash |-> IF previous_hash # None THEN previous_hash
                                     ELSE hash(last_block(ch)),
                   current_hash  |-> None ]
    IN  [block EXCEPT !.current_hash = hash(block)]

\* A faulty loop: the previous_hash comparison is missing.
RECURSIVE ValidChainLoopProofOnly(_, _, _)
ValidChainLoopProofOnly(ch, last, current_index) ==
    IF ~(current_index < Len(ch)) THEN "True"
    ELSE LET block == ch[current_index + 1]
         IN  IF ~valid_proof(last.proof, block.proof, last.current_hash) THEN "False"
             ELSE ValidChainLoopProofOnly(ch, block, current_index + 1)

\* A faulty loop: the proof is re-checked against a freshly computed hash of
\* the predecessor instead of its stored current_hash.
RECURSIVE ValidChainLoopRecomputed(_, _, _)
ValidChainLoopRecomputed(ch, last, current_index) ==
    IF ~(current_index < Len(ch)) THEN "True"
    ELSE LET block == ch[current_index + 1]
         IN  IF block.previous_hash # hash(last) THEN "False"
             ELSE IF ~valid_proof(last.proof, block.proof, hash(last)) THEN "False"
             ELSE ValidChainLoopRecomputed(ch, block, current_index + 1)

\* Blockchain.valid_chain: the while loop from current_index on (0-based, as in
\* the code), last_block being the block before it.
RECURSIVE ValidChainLoop(_, _, _)
ValidChainLoop(ch, last, current_index) ==
    IF ~(current_index < Len(ch)) THEN "True"
    ELSE LET block == ch[current_index + 1]
         IN  IF block.previous_hash # hash(last) THEN "False"
             ELSE IF ~valid_proof(last.proof, block.proof, last.current_hash) THEN "False"
             ELSE ValidChainLoop(ch, block, current_index + 1)

\* Blockchain.valid_chain: "True", "False", or "IndexError" where chain[0]
\* raises on an empty list.
valid_chain(ch) ==
    IF Len(ch) = 0 THEN "IndexError" ELSE ValidChainLoop(ch, ch[1], 1)

\* What an operation leaves in out.
Out(o, i, v) == [op |-> o, index |-> i, verdict |-> v]

(* ------------------------------ the ledger ---------------------------- *)

\* A faulty append: the block is inserted at the front.
chain_insert_front(ch, block) == <<block>> \o ch

\* self.chain.append(block)
chain_append(ch, block) == Append(ch, block)

\* Blockchain(): __init__ creates the genesis block.
Init ==
    /\ \E now \in Times :
         chain = chain_append(<<>>, new_block(<<>>, <<>>, 100, <<1>>, now))
    /\ current_transactions = <<>>
    /\ out = Out("init", 0, "none")
    /\ log = <<>>
    /\ foreign = <<>>
    /\ seed = <<>>
    /\ ledger = <<>>
    /\ threads = <<>>

\* A faulty new_transaction: the transaction is inserted at the front.
new_transaction_front(pending, sender, recipient, amount) ==
    <<[sender |-> sender, recipient |-> recipient, amount |-> amount]>> \o pending

\* Blockchain.new_transaction: the buffer after the call.
new_transaction(pending, sender, recipient, amount) ==
    Append(pending, [sender |-> sender, recipient |-> recipient, amount |-> amount])

\* A faulty return value: the index of the last block itself.
new_transaction_index_last(ch) == last_block(ch).index

\* Blockchain.new_transaction: the index it returns.
new_transaction_index(ch) == last_block(ch).index + 1

\* A user submits a transaction (add_transaction's call of new_transaction).
NewTransaction ==
    /\ Len(log) < MaxTx
    /\ \E t \in UserTransactions :
         /\ current_transactions' =
                new_transaction(current_transactions, t.sender, t.recipient, t.amount)
         /\ out' = Out("new_transaction", new_transaction_index(chain), "none")
         /\ log' = Append(log, [tx |-> t, index |-> new_transaction_index(chain)])
    /\ UNCHANGED <<chain, foreign, seed, ledger, threads>>

\* A faulty test: mining goes ahead whatever the buffer holds.
NothingToMineNever(pending) == FALSE

\* mine_block's test of the pending buffer: TRUE when it prints "No
\* transactions to mine." and returns.
NothingToMine(pending) == pending = <<>>

\* mine_block with nothing pending.
MineBlockRejected ==
    /\ NothingToMine(current_transactions)
    /\ out' = Out("no_transactions", 0, "none")
    /\ UNCHANGED <<chain, current_transactions, log, foreign, seed, ledger, threads>>

\* mine_block with transactions pending: the proof is searched, the reward is
\* added to the buffer and the block is forged.
MineBlock ==
    /\ ~NothingToMine(current_transactions)
    /\ Len(chain) < MaxBlocks
    /\ \E found \in {proof_of_work(last_block(chain))}, uuid \in Uuids, now \in Times :
         LET buffer == new_transaction(current_transactions, <<0>>, uuid, 1)
             forged == new_block(chain, buffer, found, None, now)
         IN  /\ found # -1
             /\ chain' = chain_append(chain, forged)
             /\ current_transactions' = <<>>
             /\ out' = Out("mined", forged.index, "none")
    /\ UNCHANGED <<log, foreign, seed, ledger, threads>>

\* valid_chain on the ledger's own chain.
ValidChain ==
    /\ out' = Out("valid_chain", 0, valid_chain(chain))
    /\ UNCHANGED <<chain, current_transactions, log, foreign, seed, ledger, threads>>

Next == NewTransaction \/ MineBlockRejected \/ MineBlock \/ ValidChain

Spec == Init /\ [][Next]_vars
(* ------------------- valid_chain on chains from elsewhere ------------- *)

\* The transaction lists of the blocks received: a user transaction and a reward.
ForeignTransactions ==
    { <<t, [sender |-> <<0>>, recipient |-> <<12, 13>>, amount |-> 1]>> :
        t \in UserTransactions }

\* A block as another node builds it: the given fields, and the hash of the
\* block with current_hash cleared stored as current_hash.
ForeignBlock(index, now, txs, proof, previous_hash) ==
    LET block == [ index |-> index, timestamp |-> now, transactions |-> txs,
                   proof |-> proof, previous_hash |-> previous_hash,
                   current_hash |-> None ]
    IN  [block EXCEPT !.current_hash = hash(block)]

\* The chain from elsewhere starts with a genesis block.
ReceiveGenesis ==
    /\ Len(foreign) = 0
    /\ \E now \in Times :
         foreign' = <<ForeignBlock(1, now, <<>>, 100, <<1>>)>>
    /\ out' = Out("received", 0, "none")
    /\ UNCHANGED <<chain, current_transactions, log, seed, ledger, threads>>

\* The chain from elsewhere grows by a block.  Its proof was searched with
\* the predecessor's stored current_hash or with the hash of the predecessor;
\* its previous_hash is the hash of the predecessor or the predecessor's
\* stored current_hash.
ReceiveBlock ==
    /\ Len(foreign) >= 1
    /\ Len(foreign) < MaxForeign
    /\ LET last == last_block(foreign)
       IN  \E byStored \in {Search(last.proof, last.current_hash)},
              byHash \in {proof_of_work(last)} :
             \E proof \in {byStored, byHash} \ {-1},
                previous_hash \in {hash(last), last.current_hash},
                txs \in ForeignTransactions :
                  foreign' = Append(foreign,
                      ForeignBlock(Len(foreign) + 1, 17, txs, proof, previous_hash))
    /\ out' = Out("received", 0, "none")
    /\ UNCHANGED <<chain, current_transactions, log, seed, ledger, threads>>

\* valid_chain on the chain from elsewhere.
ValidateForeign ==
    /\ out' = Out("valid_chain", 0, valid_chain(foreign))
    /\ UNCHANGED <<chain, current_transactions, log, foreign, seed, ledger, threads>>

NextV == ReceiveGenesis \/ ReceiveBlock \/ ValidateForeign

SpecV == Init /\ [][NextV]_vars

(* --------------------------- the proof-of-work scan ------------------- *)

\* The (last_proof, last_hash) pairs the scan is tried on.
Seeds ==
    { [last_proof |-> lp, last_hash |-> Sha256Hex(FmtInt(k))] :
        lp \in (0..MaxSeed) \cup {100}, k \in 0..MaxSeed }

\* A pair is handed to the scan.
ChooseSeed ==
    /\ seed = <<>>
    /\ seed' \in Seeds
    /\ out' = Out("seed", 0, "none")
    /\ UNCHANGED <<chain, current_transactions, log, foreign, ledger, threads>>

\* The scan runs on the pair.
RunSearch ==
    /\ seed # <<>>
    /\ out' = Out("search", Search(seed.last_proof, seed.last_hash), "none")
    /\ UNCHANGED <<chain, current_transactions, log, foreign, seed, ledger, threads>>

NextPoW == ChooseSeed \/ RunSearch

SpecPoW == Init /\ [][NextPoW]_vars
(* ------------------ one ledger called by several threads -------------- *)
(* ledger is a Blockchain object as Python holds it: the transactions      *)
(* field of a block and current_transactions are references to list       *)
(* objects, ledger.lists[id] being the content of list id.  Each thread    *)
(* makes one call; a step is one statement, or one read or write of the    *)
(* shared object inside a statement.                                       *)

\* The threads that call mine_block, and the one that calls new_transaction.
Miners == {"m1", "m2"}
Submitters == {"s1"}

\* What uuid4 gives each miner (the identifiers differ).
UuidOf(t) == IF t = "m1" THEN <<12, 13>> ELSE <<14, 15>>

\* The transaction submitted before the threads start, and the one s1 submits.
FirstTx == [sender |-> <<10>>, recipient |-> <<11>>, amount |-> 25]
SecondTx == [sender |-> <<0>>, recipient |-> <<10>>, amount |-> 1]

\* A block with its transactions list read through the reference, as
\* json.dumps reads it.
Deref(b) == [b EXCEPT !.transactions = ledger.lists[b.transactions]]

\* A thread that has not called yet.  mid and raced are history: mid, that
\* s1 appended while some mine_block stood between reading the buffer into its
\* block and resetting the buffer; raced, that a mine_block started while
\* another was in progress.
IdleThread ==
    [pc |-> "idle", last |-> <<>>, proof |-> 0, buf |-> 0, block |-> <<>>,
     mid |-> FALSE, raced |-> FALSE]

\* Blockchain() followed by new_transaction(FirstTx), before any thread runs:
\* list 1 is the genesis block's, list 2 the pending buffer.
InitConc ==
    /\ \E now \in Times :
         LET genesis == new_block(<<>>, <<>>, 100, <<1>>, now)
         IN  /\ chain = <<genesis>>
             /\ ledger = [ chain |-> <<[genesis EXCEPT !.transactions = 1]>>,
                           current_transactions |-> 2,
                           lists |-> << <<>>, <<FirstTx>> >> ]
    /\ current_transactions = <<>>
    /\ out = Out("init", 0, "none")
    /\ log = <<[tx |-> FirstTx, index |-> 2]>>
    /\ foreign = <<>>
    /\ seed = <<>>
    /\ threads = [t \in Miners \cup Submitters |-> IdleThread]

concFrame == <<chain, current_transactions, out, foreign, seed>>

InProgress(t) == threads[t].pc \notin {"idle", "done"}

\* A thread calls mine_block.
CallMine(t) ==
    /\ threads[t].pc = "idle"
    /\ threads' = [threads EXCEPT ![t].pc = "check",
                                  ![t].raced = \E u \in Miners \ {t} : InProgress(u)]
    /\ UNCHANGED <<ledger, log, concFrame>>

\* mine_block: if not blockchain.current_transactions: return
MineCheck(t) ==
    /\ threads[t].pc = "check"
    /\ threads' = [threads EXCEPT ![t].pc =
           IF NothingToMine(ledger.lists[ledger.current_transactions])
           THEN "done" ELSE "last_block"]
    /\ UNCHANGED <<ledger, log, concFrame>>

\* mine_block: last_block = blockchain.last_block
MineLastBlock(t) ==
    /\ threads[t].pc = "last_block"
    /\ threads' = [threads EXCEPT ![t].pc = "proof_of_work",
                                  ![t].last = last_block(ledger.chain)]
    /\ UNCHANGED <<ledger, log, concFrame>>

\* mine_block: proof = blockchain.proof_of_work(last_block)
MineProofOfWork(t) ==
    /\ threads[t].pc = "proof_of_work"
    /\ \E found \in {proof_of_work(Deref(threads[t].last))} :
         /\ found # -1
         /\ threads' = [threads EXCEPT ![t].pc = "reward", ![t].proof = found]
    /\ UNCHANGED <<ledger, log, concFrame>>

\* new_transaction (the reward): self.current_transactions is read
MineRewardLoad(t) ==
    /\ threads[t].pc = "reward"
    /\ threads' = [threads EXCEPT ![t].pc = "reward_append",
                                  ![t].buf = ledger.current_transactions]
    /\ UNCHANGED <<ledger, log, concFrame>>

\* new_transaction (the reward): .append({...}) on the list read
MineRewardAppend(t) ==
    /\ threads[t].pc = "reward_append"
    /\ ledger' = [ledger EXCEPT !.lists[threads[t].buf] =
                     new_transaction(@, <<0>>, UuidOf(t), 1)]
    /\ threads' = [threads EXCEPT ![t].pc = "block_index"]
    /\ UNCHANGED <<log, concFrame>>

\* new_block: 'index': len(self.chain) + 1, 'timestamp': time()
NewBlockIndex(t) ==
    /\ threads[t].pc = "block_index"
    /\ \E now \in Times :
         threads' = [threads EXCEPT ![t].pc = "block_transactions",
             ![t].block = [ index |-> Len(ledger.chain) + 1, timestamp |-> now,
                            transactions |-> 0, proof |-> threads[t].proof,
                            previous_hash |-> None, current_hash |-> None ]]
    /\ UNCHANGED <<ledger, log, concFrame>>

\* A faulty new_block: the block takes a copy of the buffer.
NewBlockTransactionsCopy(t) ==
    /\ threads[t].pc = "block_transactions"
    /\ ledger' = [ledger EXCEPT !.lists =
                     Append(@, ledger.lists[ledger.current_transactions])]
    /\ threads' = [threads EXCEPT ![t].pc = "block_previous_hash",
                                  ![t].block.transactions = Len(ledger.lists) + 1]
    /\ UNCHANGED <<log, concFrame>>

\* new_block: 'transactions': self.current_transactions (the reference)
NewBlockTransactions(t) ==
    /\ threads[t].pc = "block_transactions"
    /\ threads' = [threads EXCEPT ![t].pc = "block_previous_hash",
                                  ![t].block.transactions = ledger.current_transactions]
    /\ UNCHANGED <<ledger, log, concFrame>>

\* new_block: 'previous_hash': previous_hash or self.hash(self.chain[-1])
NewBlockPreviousHash(t) ==
    /\ threads[t].pc = "block_previous_hash"
    /\ threads' = [threads EXCEPT ![t].pc = "block_hash",
           ![t].block.previous_hash = hash(Deref(last_block(ledger.chain)))]
    /\ UNCHANGED <<ledger, log, concFrame>>

\* new_block: block['current_hash'] = self.hash(block)
NewBlockHash(t) ==
    /\ threads[t].pc = "block_hash"
    /\ threads' = [threads EXCEPT ![t].pc = "reset",
           ![t].block.current_hash = hash(Deref(threads[t].block))]
    /\ UNCHANGED <<ledger, log, concFrame>>

\* new_block: self.current_transactions = [] (a new list object)
NewBlockReset(t) ==
    /\ threads[t].pc = "reset"
    /\ ledger' = [ledger EXCEPT !.lists = Append(@, <<>>),
                                !.current_transactions = Len(ledger.lists) + 1]
    /\ threads' = [threads EXCEPT ![t].pc = "append"]
    /\ UNCHANGED <<log, concFrame>>

\* new_block: self.chain.append(block); mine_block prints and returns
NewBlockAppend(t) ==
    /\ threads[t].pc = "append"
    /\ ledger' = [ledger EXCEPT !.chain = chain_append(@, threads[t].block)]
    /\ threads' = [threads EXCEPT ![t].pc = "done"]
    /\ UNCHANGED <<log, concFrame>>

\* A thread calls new_transaction(SecondTx): self.current_transactions is read
SubmitLoad(t) ==
    /\ threads[t].pc = "idle"
    /\ threads' = [threads EXCEPT ![t].pc = "submit_append",
                                  ![t].buf = ledger.current_transactions]
    /\ UNCHANGED <<ledger, log, concFrame>>

\* new_transaction: .append({...}) on the list read
SubmitAppend(t) ==
    /\ threads[t].pc = "submit_append"
    /\ ledger' = [ledger EXCEPT !.lists[threads[t].buf] =
                     new_transaction(@, SecondTx.sender, SecondTx.recipient, SecondTx.amount)]
    /\ threads' = [threads EXCEPT ![t].pc = "submit_return",
           ![t].mid = \E u \in Miners :
                        threads[u].pc \in {"block_previous_hash", "block_hash", "reset"}]
    /\ UNCHANGED <<log, concFrame>>

\* new_transaction: return self.last_block['index'] + 1
SubmitReturn(t) ==
    /\ threads[t].pc = "submit_return"
    /\ log' = Append(log, [tx |-> SecondTx, index |-> new_transaction_index(ledger.chain)])
    /\ threads' = [threads EXCEPT ![t].pc = "done"]
    /\ UNCHANGED <<ledger, concFrame>>

NextConc ==
    \/ \E t \in Miners :
         \/ CallMine(t) \/ MineCheck(t) \/ MineLastBlock(t) \/ MineProofOfWork(t)
         \/ MineRewardLoad(t) \/ MineRewardAppend(t)
         \/ NewBlockIndex(t) \/ NewBlockTransactions(t) \/ NewBlockPreviousHash(t)
         \/ NewBlockHash(t) \/ NewBlockReset(t) \/ NewBlockAppend(t)
    \/ \E t \in Submitters : SubmitLoad(t) \/ SubmitAppend(t) \/ SubmitReturn(t)

SpecConc == InitConc /\ [][NextConc]_vars

(* ------------------------------- claims ------------------------------- *)

\* C1: valid_chain applied to the ledger's own chain returns true right after
\* every successful mine_block, whatever new_transaction and mine_block calls
\* came before.
C1_ValidatorRoundTrip == out.op = "mined" => valid_chain(chain) = "True"

\* C2: a successful mine_block lengthens the chain by exactly one block,
\* leaves the pending buffer empty, and the new last block's previous_hash is
\* the hash of the block before it.
C2_AppendInvariant ==
    [][ out'.op = "mined" =>
          /\ Len(chain') = Len(chain) + 1
          /\ current_transactions' = <<>>
          /\ chain'[Len(chain')].previous_hash = hash(chain'[Len(chain') - 1]) ]_vars

C2_Witness ==
    /\ out.op = "mined"
    /\ Len(chain) = 3
    /\ chain[3].previous_hash = hash(chain[2])

\* C3: mine_block with an empty pending buffer ends with the "no transactions"
\* outcome and changes neither the chain nor the pending buffer (no reward
\* transaction is added).
C3_NoOpMiningRejection ==
    [][ (current_transactions = <<>> /\ out'.op \in {"mined", "no_transactions"}) =>
          /\ out'.op = "no_transactions"
          /\ chain' = chain
          /\ current_transactions' = current_transactions ]_vars

C3_Witness ==
    /\ out.op = "no_transactions"
    /\ current_transactions = <<>>
    /\ Len(chain) >= 2
\* The ways one field of block b is changed.
TamperedTransactions(ts) ==
    ( { [ts EXCEPT ![k].amount = @ + 1] : k \in 1..Len(ts) }
      \cup { [ts EXCEPT ![k].recipient = <<11, 10>>] : k \in 1..Len(ts) }
      \cup { SubSeq(ts, 1, Len(ts) - 1) : k \in 1..Len(ts) }
      \cup { Append(ts, [sender |-> <<11>>, recipient |-> <<10>>, amount |-> 7]) }
      \cup { [k \in 1..Len(ts) |-> ts[Len(ts) + 1 - k]] } ) \ {ts}

Tampered(b) ==
    { [b EXCEPT !.index = i] : i \in (0..(MaxForeign + 1)) \ {b.index} }
    \cup { [b EXCEPT !.timestamp = t] : t \in (Times \cup {0}) \ {b.timestamp} }
    \cup { [b EXCEPT !.proof = q] : q \in {0, 100, b.proof + 1} \ {b.proof} }
    \cup { [b EXCEPT !.previous_hash = h] :
             h \in {<<1>>, <<0, 0, 0, 0>>, b.current_hash} \ {b.previous_hash} }
    \cup { [b EXCEPT !.transactions = ts] : ts \in TamperedTransactions(b.transactions) }

\* C4: on a chain valid_chain accepts, changing one field (index, timestamp,
\* transactions, proof, previous_hash) of a block other than the last one,
\* every stored hash of the other blocks kept, makes valid_chain return false,
\* provided the changed block does not collide with the original under the hash.
C4_TamperDetection ==
    valid_chain(foreign) = "True" =>
        \A j \in 1..(Len(foreign) - 1) : \A t \in Tampered(foreign[j]) :
            hash(t) # hash(foreign[j]) =>
                valid_chain([foreign EXCEPT ![j] = t]) = "False"

C4_Witness ==
    /\ Len(foreign) = 3
    /\ valid_chain(foreign) = "True"
    /\ \A j \in 1..2 : \E t \in Tampered(foreign[j]) :
         /\ t.transactions # foreign[j].transactions \/ t.timestamp # foreign[j].timestamp
         /\ hash(t) # hash(foreign[j])
         /\ valid_chain([foreign EXCEPT ![j] = t]) = "False"

\* A reward transaction: sender "0", amount 1, a fresh identifier as recipient.
IsReward(t) == t.sender = <<0>> /\ t.amount = 1 /\ t.recipient \in Uuids

\* C5: the genesis block holds no transaction, and every later block holds at
\* least one transaction a user submitted besides its reward transaction.
C5_NoEmptyMining ==
    /\ chain[1].transactions = <<>>
    /\ \A i \in 2..Len(chain) :
         LET ts == chain[i].transactions
         IN  /\ Len(ts) >= 2
             /\ IsReward(ts[Len(ts)])
             /\ \A k \in 1..(Len(ts) - 1) : \E j \in 1..Len(log) : ts[k] = log[j].tx

C5_Witness ==
    /\ Len(chain) = 3
    /\ Len(chain[2].transactions) = 2
    /\ Len(chain[3].transactions) = 2
    /\ out.op = "no_transactions"

\* The transactions the blocks from position i on hold, rewards left out, each
\* with the index of its block.
RECURSIVE Held(_, _)
Held(ch, i) ==
    IF i > Len(ch) THEN <<>>
    ELSE [k \in 1..(Len(ch[i].transactions) - 1) |->
            [index |-> ch[i].index, tx |-> ch[i].transactions[k]]] \o Held(ch, i + 1)

\* C6: new_transaction returns last_block.index + 1, and the transaction of a
\* call that returned k is held by the block with index k after the next
\* successful mine_block, and by no other block.
C6_ReturnedIndexHolds ==
    LET held == Held(chain, 1)
    IN  /\ out.op = "new_transaction" => out.index = last_block(chain).index + 1
        /\ Len(held) + Len(current_transactions) = Len(log)
        /\ \A k \in 1..Len(held) : held[k] = log[k]
        /\ \A k \in 1..Len(current_transactions) :
             /\ log[Len(held) + k].tx = current_transactions[k]
             /\ log[Len(held) + k].index = last_block(chain).index + 1
        /\ \A i, j \in 1..Len(chain) : chain[i].index = chain[j].index => i = j

C6_Witness ==
    /\ Len(log) = 2
    /\ Len(chain) = 3
    /\ log[1].index = 2 /\ chain[2].transactions[1] = log[1].tx
    /\ log[2].index = 3 /\ chain[3].transactions[1] = log[2].tx

IsPrefix(a, b) == Len(a) <= Len(b) /\ SubSeq(b, 1, Len(a)) = a

\* C7: the chain is never empty, and every operation leaves the chain it found
\* as a prefix of the chain it leaves: one block longer after a successful
\* mine_block, of the same length otherwise.
C7_AppendOnly ==
    /\ [](Len(chain) >= 1)
    /\ [][ /\ IsPrefix(chain, chain')
           /\ Len(chain') = Len(chain) + (IF out'.op = "mined" THEN 1 ELSE 0) ]_vars

C7_Witness ==
    /\ out.op = "new_transaction"
    /\ Len(chain) = 2
    /\ Len(chain[2].transactions) = 2
    /\ current_transactions # <<>>

\* C8: a freshly constructed ledger has a chain of exactly one block, with
\* index 1, previous_hash "1", proof 100 and no transactions, and an empty
\* pending buffer.
C8_Genesis ==
    out.op = "init" =>
        /\ Len(chain) = 1
        /\ chain[1].index = 1
        /\ chain[1].previous_hash = <<1>>
        /\ chain[1].proof = 100
        /\ chain[1].transactions = <<>>
        /\ current_transactions = <<>>

C8_Witness == out.op = "init" /\ Len(chain) = 1 /\ chain[1].timestamp = 17

\* C9: whenever some candidate satisfies the difficulty predicate, the scan
\* returns a candidate valid_proof accepts, and valid_proof accepts no smaller
\* non-negative candidate for the same last_proof and last_hash.
C9_SearchCorrectMinimal ==
    out.op = "search" =>
        LET found == out.index
        IN  /\ (\E q \in 0..MaxProof : valid_proof(seed.last_proof, q, seed.last_hash))
                   => found # -1
            /\ found # -1 =>
                   /\ valid_proof(seed.last_proof, found, seed.last_hash)
                   /\ \A q \in 0..(found - 1) :
                        ~valid_proof(seed.last_proof, q, seed.last_hash)

C9_Witness ==
    /\ out.op = "search"
    /\ out.index > 100
    /\ valid_proof(seed.last_proof, out.index, seed.last_hash)

\* C10: valid_chain returns true for every chain of fewer than 2 blocks, the
\* empty chain included, without raising.
C10_ShortChainsValid == Len(foreign) < 2 => valid_chain(foreign) = "True"
\* Block b with its current_hash cleared to the None placeholder.
Cleared(b) == [b EXCEPT !.current_hash = None]

\* C11: the digest of a block does not depend on its current_hash field: a
\* block of the chain, which stores its current_hash, has the digest of the
\* same block with current_hash cleared.
C11_HashExcludesCurrentHash ==
    \A i \in 1..Len(chain) : hash(chain[i]) = hash(Cleared(chain[i]))

\* C12: every block of the chain, genesis included, stores as current_hash the
\* hash of that block with current_hash cleared.
C12_StoredHashOfCleared ==
    \A i \in 1..Len(chain) : chain[i].current_hash = hash(Cleared(chain[i]))

C12_Witness ==
    /\ Len(chain) = 3
    /\ chain[3].current_hash = hash(Cleared(chain[3]))
    /\ chain[3].current_hash # hash(chain[3])

\* C14: block indices are contiguous from 1: the block at 0-based position i
\* has index i + 1, one more than its predecessor's.
C14_ContiguousIndices ==
    /\ \A i \in 1..Len(chain) : chain[i].index = i
    /\ \A i \in 2..Len(chain) : chain[i].index = chain[i - 1].index + 1

C14_Witness ==
    /\ Len(chain) = 3
    /\ chain[1].index = 1 /\ chain[2].index = 2 /\ chain[3].index = 3
    /\ out.op = "valid_chain"

\* C19: each block after the genesis block carries a proof that valid_proof
\* accepts with its predecessor's proof and the block's own previous_hash.
C19_ProofMatchesPreviousHash ==
    \A i \in 2..Len(chain) :
        valid_proof(chain[i - 1].proof, chain[i].proof, chain[i].previous_hash)

C19_Witness ==
    /\ Len(chain) = 3
    /\ valid_proof(chain[2].proof, chain[3].proof, chain[3].previous_hash)
    /\ ~valid_proof(chain[2].proof, chain[3].proof, chain[2].current_hash)
\* Every block of ch after the first links to its predecessor: previous_hash is
\* the predecessor's hash, and the proof passes with the predecessor's proof
\* and stored current_hash.
Linked(ch) ==
    \A i \in 2..Len(ch) :
        /\ ch[i].previous_hash = hash(ch[i - 1])
        /\ valid_proof(ch[i - 1].proof, ch[i].proof, ch[i - 1].current_hash)

\* C13: on a chain of at least 2 blocks valid_chain returns true exactly when
\* every block after the first has previous_hash equal to the hash of its
\* predecessor and a proof that valid_proof accepts with the predecessor's proof
\* and stored current_hash.  Nothing else is looked at: not the first block's
\* own fields (a chain cut after its genesis block is judged by the same
\* rule), not the last block's index or current_hash.
C13_ValidChainIffLinked ==
    Len(foreign) >= 2 =>
        LET n == Len(foreign)
            cut == SubSeq(foreign, 2, n)
        IN  /\ valid_chain(foreign) = (IF Linked(foreign) THEN "True" ELSE "False")
            /\ Len(cut) >= 2 =>
                   valid_chain(cut) = (IF Linked(cut) THEN "True" ELSE "False")
            /\ \A i \in 0..(MaxForeign + 1) :
                   valid_chain([foreign EXCEPT ![n].index = i]) = valid_chain(foreign)
            /\ \A h \in {None, <<0, 0, 0, 0>>, hash(foreign[n])} :
                   valid_chain([foreign EXCEPT ![n].current_hash = h]) = valid_chain(foreign)

C13_Witness ==
    /\ Len(foreign) = 3
    /\ \A i \in 2..3 : foreign[i].previous_hash = hash(foreign[i - 1])
    /\ valid_proof(foreign[1].proof, foreign[2].proof, foreign[1].current_hash)
    /\ ~valid_proof(foreign[2].proof, foreign[3].proof, foreign[2].current_hash)
    /\ valid_proof(foreign[2].proof, foreign[3].proof, hash(foreign[2]))
    /\ out.op = "valid_chain" /\ out.verdict = "False"
\* C15: a successful mine_block forges its block from the pending buffer as it
\* stood at the call, in order, followed by exactly one reward transaction
\* (sender "0", amount 1) as the last element, so the block holds
\* len(pending) + 1 transactions; its proof is what the scan finds for the
\* previous last block's proof and hash.
C15_MinedBlockContents ==
    [][ out'.op = "mined" =>
          LET forged == chain'[Len(chain')]
              n == Len(forged.transactions)
          IN  /\ n = Len(current_transactions) + 1
              /\ SubSeq(forged.transactions, 1, n - 1) = current_transactions
              /\ IsReward(forged.transactions[n])
              /\ \A k \in 1..(n - 1) : forged.transactions[k].recipient \notin Uuids
              /\ forged.proof = Search(last_block(chain).proof, hash(last_block(chain))) ]_vars

C15_Witness ==
    /\ out.op = "mined"
    /\ Len(chain) = 2
    /\ Len(chain[2].transactions) = 3
    /\ chain[2].transactions[1] # chain[2].transactions[2]
    /\ IsReward(chain[2].transactions[3])

\* C16: the pending buffer is emptied exactly when a block is appended;
\* new_transaction leaves the chain alone and adds its one transaction at the
\* end of the buffer, the earlier entries kept in order; a rejected mine_block
\* and valid_chain leave the buffer as it is.
C16_PendingFrame ==
    [][ /\ chain' # chain => current_transactions' = <<>>
        /\ (current_transactions # <<>> /\ current_transactions' = <<>>) =>
              Len(chain') = Len(chain) + 1
        /\ out'.op = "new_transaction" =>
              /\ chain' = chain
              /\ Len(current_transactions') = Len(current_transactions) + 1
              /\ SubSeq(current_transactions', 1, Len(current_transactions))
                    = current_transactions
              /\ current_transactions'[Len(current_transactions')] = log'[Len(log')].tx
        /\ out'.op \in {"no_transactions", "valid_chain"} =>
              current_transactions' = current_transactions ]_vars

C16_Witness ==
    /\ out.op = "new_transaction"
    /\ Len(current_transactions) = 2
    /\ current_transactions[1] # current_transactions[2]
    /\ current_transactions[1] = log[1].tx /\ current_transactions[2] = log[2].tx

\* The transactions of the blocks from position i on, each block's final
\* (reward) transaction removed, in chain order.
RECURSIVE WithoutRewards(_, _)
WithoutRewards(ch, i) ==
    IF i > Len(ch) THEN <<>>
    ELSE SubSeq(ch[i].transactions, 1, Len(ch[i].transactions) - 1)
         \o WithoutRewards(ch, i + 1)

\* C18: under sequential use, the transactions of the blocks after the genesis
\* block, rewards removed, followed by the pending buffer, are the submitted
\* transactions in submission order: none lost, duplicated or reordered.
C18_Conservation ==
    WithoutRewards(chain, 2) \o current_transactions
        = [k \in 1..Len(log) |-> log[k].tx]

C18_Witness ==
    /\ Len(log) = 2 /\ log[1].tx # log[2].tx
    /\ Len(chain) = 3
    /\ WithoutRewards(chain, 2) = <<log[1].tx, log[2].tx>>
    /\ current_transactions = <<>>

\* Every thread has returned or has not called.
Quiescent == \A t \in DOMAIN threads : threads[t].pc \in {"idle", "done"}

RECURSIVE Occurrences(_, _, _)
\* How many entries of txs, from position k on, are tx.
Occurrences(txs, tx, k) ==
    IF k > Len(txs) THEN 0
    ELSE (IF txs[k] = tx THEN 1 ELSE 0) + Occurrences(txs, tx, k + 1)

RECURSIVE InBlocks(_, _)
\* How many times tx stands in the blocks of ledger.chain from position i on.
InBlocks(tx, i) ==
    IF i > Len(ledger.chain) THEN 0
    ELSE Occurrences(ledger.lists[ledger.chain[i].transactions], tx, 1)
             + InBlocks(tx, i + 1)

InPending(tx) == Occurrences(ledger.lists[ledger.current_transactions], tx, 1)

\* tx is in no block and not in pending.
Lost(tx) == InBlocks(tx, 1) + InPending(tx) = 0

\* tx is in more than one block, or in a block and in pending.
Duplicated(tx) == InBlocks(tx, 1) + InPending(tx) > 1

\* C17: without serialization the ledger is unsafe.  A transaction whose
\* new_transaction call has returned is lost (in no block and not in pending)
\* or duplicated (in more than one block, or in a block and in pending) only
\* in states that serialized calls never show to a caller: while a mine_block
\* stands between resetting the buffer and appending its block, or after two
\* mine_block calls ran at the same time.  C17_Witness is such a state, reached
\* by interleaving two mine_block calls and a new_transaction, and it lasts:
\* every call has returned.
C17_UnsafeOnlyWhenInterleaved ==
    (\E k \in 1..Len(log) : Lost(log[k].tx) \/ Duplicated(log[k].tx))
        => \/ \E m \in Miners : threads[m].pc = "append"
           \/ \E m \in Miners : threads[m].raced

\* All calls returned; FirstTx stands in two blocks and SecondTx, appended
\* while a mine_block was between taking the buffer and resetting it, is in no
\* block and not in pending.
C17_Witness ==
    /\ DOMAIN threads = Miners \cup Submitters
    /\ Quiescent
    /\ threads["s1"].pc = "done" /\ threads["s1"].mid
    /\ Duplicated(FirstTx)
    /\ Lost(SecondTx)

====
